---- MODULE Spec2Model ----
(***************************************************************************)
(* Model of the C-ABI boundary of filecoin-proofs (src/api/mod.rs): the    *)
(* six dispatcher operations seal, verify_seal, get_unsealed_range,        *)
(* get_unsealed, generate_post and verify_post.  The proving engine        *)
(* (api::internal) and the sector store are collaborators: their outcomes  *)
(* are inputs drawn from small sets.  Each action is one complete call:    *)
(* it records the inputs, the requests handed to the engine, the engine's  *)
(* outcome and the Response the call returns.                              *)
(*                                                                         *)
(* SpecTests runs the round-trip tests of the module (mod tests) as        *)
(* callers: threads that write, seal, verify, unseal, read back and        *)
(* release, against a sector store and an engine that compute on files.    *)
(***************************************************************************)
EXTENDS Integers, Sequences, FiniteSets, TLC

VARIABLES
    overflow_checks, \* build profile: TRUE = arithmetic overflow panics (debug)
    op,              \* the dispatcher operation called last ("none" at start)
    pc,              \* how that call ended: "idle", "returned", "panicked", "crashed"
    args,            \* the inputs of that call
    engine_req,      \* the requests the call handed to internal::*, in order
    engine_res,      \* what the engine answered
    comm_rs,         \* generate_post: the commitments parsed from the buffer
    reads,           \* generate_post: the byte ranges <<from, to>> read, [from, to)
    response,        \* the Response the call returned (the pointee of the Box)
    response_ptr,    \* the pointer the call returned (0: none)
    heap,            \* the live heap allocations made on behalf of the caller
    threads,         \* the threads of a test run, each inside one round-trip test
    disk             \* the sector files of the stores, by path

vars == <<overflow_checks, op, pc, args, engine_req, engine_res, comm_rs, reads, response, response_ptr, heap, threads, disk>>

\* the record of the call made last
callvars == <<overflow_checks, op, pc, args, engine_req, engine_res, comm_rs, reads, response, response_ptr>>

\* the state of the round-trip tests
testvars == <<threads, disk>>

----------------------------------------------------------------------------
(* Bounds of the model *)

\* largest number of whole 32-byte commitments in a flattened buffer
MaxCommitments == 3

\* small byte counts the engine may report / the caller may request
MaxBytes == 3

----------------------------------------------------------------------------
(* Program constants *)

SNARK_BYTES == 192

COMM_BYTES == 32

ID_BYTES == 31

POST_SENTINEL == 42

\* Largest value of the machine word (u64 / usize) of the model.  TLC's
\* integers are 32 bits wide, so the word is modelled with modulus 2^31;
\* every operation on it wraps around exactly as the 64-bit one does.
WORD_MAX == 2147483647

FCPSuccess == "FCPSuccess"

FCPReceiverError == "FCPReceiverError"

FCPUnclassifiedError == "FCPUnclassifiedError"

Min(a, b) == IF a <= b THEN a ELSE b

\* [b; n]
Fill(b, n) == [i \in 1..n |-> b]

\* b, b+stride, b+2*stride, ... (mod 256): n bytes that differ from each other
Ramp(b, stride, n) == [i \in 1..n |-> (b + (i - 1) * stride) % 256]

----------------------------------------------------------------------------
(* C strings and message formatting *)

\* a null *const c_char
NULL == [null |-> TRUE, text |-> ""]

\* CString::new(s).unwrap() ; msg.as_ptr() ; mem::forget(msg)
CStringPtr(s) == [null |-> FALSE, text |-> s]

\* format!("{:?}", err) for an engine failure err = [variant, detail]
FormatDebug(err) == err.variant \o "(\"" \o err.detail \o "\")"

\* format!("expected to unseal {}-bytes, but unsealed {}-bytes", a, b)
FormatShort(a, b) ==
    "expected to unseal " \o ToString(a) \o "-bytes, but unsealed " \o ToString(b) \o "-bytes"

----------------------------------------------------------------------------
(* Heap buffers: ownership inside a call and what survives its return *)

\* CString::new(s).unwrap(): a buffer owned by a local of the call
CString_new(s) == [kind |-> "CString", data |-> s, forgotten |-> FALSE]

\* a Vec<u8> with contents v, owned by a local of the call
Vec_of(v) == [kind |-> "Vec", data |-> v, forgotten |-> FALSE]

\* mem::forget without effect: the local still owns the buffer
mem_forget_missing(buf) == buf

\* mem::forget(buf): the local gives the buffer up, nothing drops it
mem_forget(buf) == [buf EXCEPT !.forgotten = TRUE]

\* the buffers behind the pointers stored in a Response: the CString of
\* error_msg, the Vec of faults_ptr (an empty Vec owns no memory)
pointed_buffers(resp) ==
    (IF resp.error_msg.null THEN {} ELSE {mem_forget(CString_new(resp.error_msg.text))})
        \cup (IF "faults_ptr" \in DOMAIN resp /\ Len(resp.faults_ptr) > 0
              THEN {mem_forget(Vec_of(resp.faults_ptr))} ELSE {})

\* the locals of a call are dropped when it returns, the forgotten ones stay
kept_at_return(bufs) == {b \in bufs : b.forgotten}

\* the allocator: the lowest address not in use
fresh(h) ==
    CHOOSE a \in 1..(Cardinality(h) + 1) :
        /\ \A b \in h : b.addr # a
        /\ \A c \in 1..(a - 1) : \E b \in h : b.addr = c

RECURSIVE place(_, _, _)
\* heap h with the buffers bufs placed at fresh addresses, owned by owner
place(h, bufs, owner) ==
    IF bufs = {} THEN h
    ELSE LET b == CHOOSE x \in bufs : TRUE IN
         place(h \cup {[addr |-> fresh(h), kind |-> b.kind, owner |-> owner, data |-> b.data]},
               bufs \ {b}, owner)

\* Box::into_raw(Box::new(resp)) at the end of a call: the heap holds the
\* Response of the given type and the buffers the call did not drop
box_into_raw(h, type, resp) ==
    LET ptr == fresh(h) IN
    place(h \cup {[addr |-> ptr, kind |-> type, owner |-> 0, data |-> resp]},
          kept_at_return(pointed_buffers(resp)), ptr)

\* the Response types
ResponseTypes ==
    {"SealResponse", "VerifySealResponse", "GetUnsealedRangeResponse",
     "GetUnsealedResponse", "GeneratePoSTResponse", "VerifyPoSTResponse"}

\* the Responses the caller holds
held(h) == {b \in h : b.kind \in ResponseTypes}

\* destroy_*_response(ptr): the Response and all buffers attached to it
\* are freed together
destroy_response(h, ptr) == {b \in h : b.addr # ptr /\ b.owner # ptr}

\* the release operation of each Response type
destroy_of(type) ==
    CASE type = "SealResponse" -> "destroy_seal_response"
      [] type = "VerifySealResponse" -> "destroy_verify_seal_response"
      [] type = "GetUnsealedRangeResponse" -> "destroy_get_unsealed_range_response"
      [] type = "GetUnsealedResponse" -> "destroy_get_unsealed_response"
      [] type = "GeneratePoSTResponse" -> "destroy_generate_post_response"
      [] type = "VerifyPoSTResponse" -> "destroy_verify_post_response"

----------------------------------------------------------------------------
(* Rust values *)

Ok(v) == [ok |-> TRUE, value |-> v]

Err(e) == [ok |-> FALSE, err |-> e]

\* dst[..n].clone_from_slice(&src[..n])
clone_from_slice(dst, src, n) == [i \in 1..Len(dst) |-> IF i <= n THEN src[i] ELSE dst[i]]

\* a - b stopping at 0 instead of wrapping
saturating_sub(a, b) == IF a >= b THEN a - b ELSE 0

\* a - b on an unsigned machine word, wrapping (overflow checks off)
wrapping_sub(a, b) == IF a >= b THEN a - b ELSE (WORD_MAX - (b - a)) + 1

\* iter.take(n) on a Vec
take(s, n) == SubSeq(s, 1, Min(n, Len(s)))

\* util::pbuf_from_c: the PathBuf made from a C string
pbuf_from_c(path) == [path_buf |-> path]

----------------------------------------------------------------------------
(* Response structures (api::responses) and their Default::default() *)

SealResponseDefault ==
    [status_code |-> FCPSuccess, error_msg |-> NULL,
     comm_r |-> Fill(0, COMM_BYTES), comm_d |-> Fill(0, COMM_BYTES),
     proof |-> Fill(0, SNARK_BYTES)]

VerifySealResponseDefault ==
    [status_code |-> FCPSuccess, error_msg |-> NULL, is_valid |-> FALSE]

GetUnsealedRangeResponseDefault ==
    [status_code |-> FCPSuccess, error_msg |-> NULL, num_bytes_written |-> 0]

GetUnsealedResponseDefault ==
    [status_code |-> FCPSuccess, error_msg |-> NULL]

GeneratePoSTResponseDefault ==
    [status_code |-> FCPSuccess, error_msg |-> NULL,
     faults_len |-> 0, faults_ptr |-> <<>>, proof |-> Fill(0, SNARK_BYTES)]

VerifyPoSTResponseDefault ==
    [status_code |-> FCPSuccess, error_msg |-> NULL, is_valid |-> FALSE]

\* the value of `response` before any call has returned
NoResponse == [status_code |-> "unset", error_msg |-> NULL]

----------------------------------------------------------------------------
(* Sector store: per-configuration sizing *)

ConfiguredStores == {"Live", "Test", "ProofTest"}

\* the configurations the roundtrip tests run on
TestedStores == {"Test", "ProofTest"}

max_unsealed_bytes_per_sector(cs) ==
    CASE cs = "Live" -> 1065353216
      [] cs = "Test" -> 1016
      [] cs = "ProofTest" -> 127

----------------------------------------------------------------------------
(* seal *)

\* the arguments of internal::seal
seal_request(unsealed_path, sealed_path, prover_id, sector_id) ==
    [fn |-> "seal",
     unsealed |-> pbuf_from_c(unsealed_path), sealed |-> pbuf_from_c(sealed_path),
     prover_id |-> prover_id, sector_id |-> sector_id]

\* seal with the two commitments written to each other's field
seal_swapped(result) ==
    LET response_0 == SealResponseDefault IN
    IF result.ok
    THEN [response_0 EXCEPT
            !.status_code = FCPSuccess,
            !.comm_r = clone_from_slice(@, result.value[2], 32),
            !.comm_d = clone_from_slice(@, result.value[1], 32),
            !.proof = clone_from_slice(@, result.value[3], SNARK_BYTES)]
    ELSE [response_0 EXCEPT
            !.status_code = FCPUnclassifiedError,
            !.error_msg = CStringPtr(FormatDebug(result.err))]

\* the match on the engine's result; result.value = <<comm_r, comm_d, snark_proof>>
seal(result) ==
    LET response_0 == SealResponseDefault IN
    IF result.ok
    THEN [response_0 EXCEPT
            !.status_code = FCPSuccess,
            !.comm_r = clone_from_slice(@, result.value[1], 32),
            !.comm_d = clone_from_slice(@, result.value[2], 32),
            !.proof = clone_from_slice(@, result.value[3], SNARK_BYTES)]
    ELSE [response_0 EXCEPT
            !.status_code = FCPUnclassifiedError,
            !.error_msg = CStringPtr(FormatDebug(result.err))]

----------------------------------------------------------------------------
(* verify_seal *)

verify_seal_request(comm_r, comm_d, prover_id, sector_id, proof) ==
    [fn |-> "verify_seal", comm_r |-> comm_r, comm_d |-> comm_d,
     prover_id |-> prover_id, sector_id |-> sector_id, proof |-> proof]

\* verify_seal reporting a negative verification as a failure
verify_seal_conflated(result) ==
    LET response_0 == VerifySealResponseDefault IN
    IF result.ok /\ result.value = TRUE
    THEN [response_0 EXCEPT !.status_code = FCPSuccess, !.is_valid = TRUE]
    ELSE [response_0 EXCEPT
            !.status_code = FCPUnclassifiedError,
            !.error_msg = CStringPtr(IF result.ok THEN "invalid" ELSE FormatDebug(result.err))]

verify_seal(result) ==
    LET response_0 == VerifySealResponseDefault IN
    IF result.ok /\ result.value = TRUE
    THEN [response_0 EXCEPT !.status_code = FCPSuccess, !.is_valid = TRUE]
    ELSE IF result.ok /\ result.value = FALSE
    THEN [response_0 EXCEPT !.status_code = FCPSuccess, !.is_valid = FALSE]
    ELSE [response_0 EXCEPT
            !.status_code = FCPUnclassifiedError,
            !.error_msg = CStringPtr(FormatDebug(result.err))]

----------------------------------------------------------------------------
(* get_unsealed_range *)

\* the request of get_unsealed_range with the range taken from the start
get_unsealed_range_request_from_start(sealed_path, output_path, start_offset, num_bytes, prover_id, sector_id) ==
    [fn |-> "get_unsealed_range",
     sealed |-> pbuf_from_c(sealed_path), output |-> pbuf_from_c(output_path),
     prover_id |-> prover_id, sector_id |-> sector_id,
     start_offset |-> 0, num_bytes |-> num_bytes]

get_unsealed_range_request(sealed_path, output_path, start_offset, num_bytes, prover_id, sector_id) ==
    [fn |-> "get_unsealed_range",
     sealed |-> pbuf_from_c(sealed_path), output |-> pbuf_from_c(output_path),
     prover_id |-> prover_id, sector_id |-> sector_id,
     start_offset |-> start_offset, num_bytes |-> num_bytes]

\* get_unsealed_range accepting any count of at least num_bytes as complete
get_unsealed_range_at_least(num_bytes, result) ==
    LET response_0 == GetUnsealedRangeResponseDefault IN
    IF result.ok
    THEN LET num_bytes_unsealed == result.value
             response_1 ==
                 IF num_bytes_unsealed >= num_bytes
                 THEN [response_0 EXCEPT !.status_code = FCPSuccess]
                 ELSE [response_0 EXCEPT
                         !.status_code = FCPReceiverError,
                         !.error_msg = CStringPtr(FormatShort(num_bytes, num_bytes_unsealed))]
         IN [response_1 EXCEPT !.num_bytes_written = num_bytes_unsealed]
    ELSE [response_0 EXCEPT
            !.status_code = FCPUnclassifiedError,
            !.error_msg = CStringPtr(FormatDebug(result.err))]

\* get_unsealed_range recording the byte count on the Success branch only
get_unsealed_range_count_on_success(num_bytes, result) ==
    LET response_0 == GetUnsealedRangeResponseDefault IN
    IF result.ok
    THEN LET num_bytes_unsealed == result.value IN
         IF num_bytes_unsealed = num_bytes
         THEN [response_0 EXCEPT !.status_code = FCPSuccess,
                                 !.num_bytes_written = num_bytes_unsealed]
         ELSE [response_0 EXCEPT
                 !.status_code = FCPReceiverError,
                 !.error_msg = CStringPtr(FormatShort(num_bytes, num_bytes_unsealed))]
    ELSE [response_0 EXCEPT
            !.status_code = FCPUnclassifiedError,
            !.error_msg = CStringPtr(FormatDebug(result.err))]

get_unsealed_range(num_bytes, result) ==
    LET response_0 == GetUnsealedRangeResponseDefault IN
    IF result.ok
    THEN LET num_bytes_unsealed == result.value
             response_1 ==
                 IF num_bytes_unsealed = num_bytes
                 THEN [response_0 EXCEPT !.status_code = FCPSuccess]
                 ELSE [response_0 EXCEPT
                         !.status_code = FCPReceiverError,
                         !.error_msg = CStringPtr(FormatShort(num_bytes, num_bytes_unsealed))]
         IN [response_1 EXCEPT !.num_bytes_written = num_bytes_unsealed]
    ELSE [response_0 EXCEPT
            !.status_code = FCPUnclassifiedError,
            !.error_msg = CStringPtr(FormatDebug(result.err))]

----------------------------------------------------------------------------
(* get_unsealed *)

\* the request of get_unsealed, one byte short of the sector
get_unsealed_request_short(sealed_path, output_path, prover_id, sector_id, sector_bytes) ==
    [fn |-> "get_unsealed_range",
     sealed |-> pbuf_from_c(sealed_path), output |-> pbuf_from_c(output_path),
     prover_id |-> prover_id, sector_id |-> sector_id,
     start_offset |-> 0, num_bytes |-> sector_bytes - 1]

\* the one ranged-unseal request: offset 0, length sector_bytes
get_unsealed_request(sealed_path, output_path, prover_id, sector_id, sector_bytes) ==
    [fn |-> "get_unsealed_range",
     sealed |-> pbuf_from_c(sealed_path), output |-> pbuf_from_c(output_path),
     prover_id |-> prover_id, sector_id |-> sector_id,
     start_offset |-> 0, num_bytes |-> sector_bytes]

get_unsealed(sector_bytes, result) ==
    LET response_0 == GetUnsealedResponseDefault IN
    IF result.ok
    THEN LET num_bytes == result.value IN
         IF num_bytes = sector_bytes
         THEN [response_0 EXCEPT !.status_code = FCPSuccess]
         ELSE [response_0 EXCEPT
                 !.status_code = FCPReceiverError,
                 !.error_msg = CStringPtr(FormatShort(sector_bytes, num_bytes))]
    ELSE [response_0 EXCEPT
            !.status_code = FCPUnclassifiedError,
            !.error_msg = CStringPtr(FormatDebug(result.err))]

----------------------------------------------------------------------------
(* generate_post *)

\* the offsets visited by from_raw_parts(ptr, len).iter().step_by(32)
step_by_32(len) == {o \in 0..(len - 1) : o % 32 = 0}

\* from_raw_parts(item, 32) for the item at offset o: the range read
block_range(o) == <<o, o + 32>>

\* the ranges read while folding over the buffer
generate_post_reads(len) == {block_range(o) : o \in step_by_32(len)}

\* the byte at offset p (from 0) of the caller's buffer of len bytes; a
\* read at or past len leaves the buffer and yields whatever is there
read_byte(mem, len, p, junk) == IF p < len THEN mem[p + 1] ELSE junk

\* the fold: one [u8; 32] per visited offset, in order
parse_comm_rs(mem, len, junk) ==
    [k \in 1..Cardinality(step_by_32(len)) |->
        [i \in 1..32 |-> read_byte(mem, len, block_range(32 * (k - 1))[1] + (i - 1), junk)]]

\* the fault list taken with min(1, comm_rs.len())
fault_idxs_of_count(count) == take(<<0>>, Min(1, count))

\* vec![0].into_iter().take(cmp::min(1, comm_rs.len() - 1)).collect()
fault_idxs_of(count) == take(<<0>>, Min(1, wrapping_sub(count, 1)))

\* generate_post that leaves the proof at its default
generate_post_no_proof(fault_idxs) ==
    [GeneratePoSTResponseDefault EXCEPT
        !.faults_len = Len(fault_idxs),
        !.faults_ptr = fault_idxs]

\* the Response built from the fault list
generate_post(fault_idxs) ==
    [GeneratePoSTResponseDefault EXCEPT
        !.faults_len = Len(fault_idxs),
        !.faults_ptr = fault_idxs,
        !.proof = Fill(POST_SENTINEL, 192)]

----------------------------------------------------------------------------
(* verify_post *)

\* verify_post looking at the last byte of the proof
verify_post_last_byte(proof) ==
    LET res == VerifyPoSTResponseDefault IN
    IF proof[Len(proof)] = 42
    THEN [res EXCEPT !.is_valid = TRUE]
    ELSE [res EXCEPT !.is_valid = FALSE]

verify_post(proof) ==
    LET res == VerifyPoSTResponseDefault IN
    IF proof[1] = 42
    THEN [res EXCEPT !.is_valid = TRUE]
    ELSE [res EXCEPT !.is_valid = FALSE]

----------------------------------------------------------------------------
(* Inputs of the calls and outcomes of the collaborators *)

StagingAccesses == {"staging/a"}

OutputAccesses == {"staging/b"}

SealedAccesses == {"sealed/a"}

ProverIds == {Fill(2, ID_BYTES), Ramp(1, 1, ID_BYTES)}

SectorIds == {Fill(0, ID_BYTES)}

Commitments == {Ramp(1, 1, COMM_BYTES), Fill(9, COMM_BYTES)}

SealProofs == {Ramp(3, 5, SNARK_BYTES), Fill(0, SNARK_BYTES)}

EngineErrors ==
    {[variant |-> "Io", detail |-> "sector access not found"],
     [variant |-> "Unclassified", detail |-> "malformed input"]}

\* byte counts requested by a caller or reported by the engine
ByteCounts == (0..MaxBytes) \cup {122, 127, WORD_MAX}

StartOffsets == {0, 5}

\* byte counts the engine may report for a whole sector of sector_bytes
SectorCounts(sector_bytes) ==
    (0..MaxBytes) \cup {sector_bytes - 1, sector_bytes, sector_bytes + 1}

\* lengths of the flattened commitment buffer: whole blocks, and blocks
\* followed by a partial one
PostLens ==
    {32 * k : k \in 0..MaxCommitments}
        \cup {32 * k + r : k \in 0..(MaxCommitments - 1), r \in {1, 31}}

\* buffers of len bytes
Buffers(len) == {Ramp(b, s, len) : b \in {0, 200}, s \in {0, 3}}

ChallengeSeeds == {Fill(0, 32), Ramp(5, 1, 32)}

\* what a read past the end of the caller's buffer can find
JunkBytes == {0, 255}

\* proofs a caller can hand to verify_post: first byte b0, last byte b1
PostProofs ==
    {[i \in 1..192 |-> IF i = 1 THEN b0 ELSE IF i = 192 THEN b1 ELSE f] :
        b0 \in {0, 41, 42, 43, 255}, b1 \in {0, 42}, f \in {0, 42}}

NoOutcome == [ok |-> FALSE, none |-> TRUE]

----------------------------------------------------------------------------
(* The state machine: one action per dispatcher operation *)

\* no file exists
NoFiles == [k \in {} |-> <<>>]

Init ==
    /\ threads = <<>>
    /\ disk = NoFiles
    /\ overflow_checks \in BOOLEAN
    /\ op = "none"
    /\ pc = "idle"
    /\ args = [store |-> "ProofTest"]
    /\ engine_req = <<>>
    /\ engine_res = NoOutcome
    /\ comm_rs = <<>>
    /\ reads = {}
    /\ response = NoResponse
    /\ response_ptr = 0
    /\ heap = {}

\* the caller starts a call when it holds no Response and the process lives
CallerIdle == heap = {} /\ pc \notin {"panicked", "crashed"}

Seal ==
    \E cs \in TestedStores, unsealed_path \in StagingAccesses,
       sealed_path \in SealedAccesses, prover_id \in ProverIds, sector_id \in SectorIds,
       result \in {Ok(<<r, d, p>>) : r \in Commitments, d \in Commitments, p \in SealProofs}
                     \cup {Err(e) : e \in EngineErrors} :
        /\ CallerIdle
        /\ op' = "seal"
        /\ args' = [store |-> cs, unsealed_path |-> unsealed_path,
                    sealed_path |-> sealed_path,
                    prover_id |-> prover_id, sector_id |-> sector_id]
        /\ engine_req' = <<seal_request(unsealed_path, sealed_path, prover_id, sector_id)>>
        /\ engine_res' = result
        /\ response' = seal(result)
        /\ pc' = "returned"
        /\ response_ptr' = fresh(heap)
        /\ heap' = box_into_raw(heap, "SealResponse", response')
        /\ comm_rs' = <<>>
        /\ reads' = {}
        /\ UNCHANGED <<overflow_checks, threads, disk>>

VerifySeal ==
    \E cs \in TestedStores, comm_r \in Commitments, comm_d \in Commitments,
       prover_id \in {Fill(2, ID_BYTES)}, sector_id \in SectorIds, proof \in SealProofs,
       result \in {Ok(TRUE), Ok(FALSE)} \cup {Err(e) : e \in EngineErrors} :
        /\ CallerIdle
        /\ op' = "verify_seal"
        /\ args' = [store |-> cs, comm_r |-> comm_r, comm_d |-> comm_d,
                    prover_id |-> prover_id, sector_id |-> sector_id, proof |-> proof]
        /\ engine_req' = <<verify_seal_request(comm_r, comm_d, prover_id, sector_id, proof)>>
        /\ engine_res' = result
        /\ response' = verify_seal(result)
        /\ pc' = "returned"
        /\ response_ptr' = fresh(heap)
        /\ heap' = box_into_raw(heap, "VerifySealResponse", response')
        /\ comm_rs' = <<>>
        /\ reads' = {}
        /\ UNCHANGED <<overflow_checks, threads, disk>>

GetUnsealedRange ==
    \E cs \in TestedStores, sealed_path \in SealedAccesses,
       output_path \in OutputAccesses, start_offset \in StartOffsets,
       num_bytes \in ByteCounts, prover_id \in {Fill(2, ID_BYTES)}, sector_id \in SectorIds,
       result \in {Ok(n) : n \in ByteCounts} \cup {Err(e) : e \in EngineErrors} :
        /\ CallerIdle
        /\ op' = "get_unsealed_range"
        /\ args' = [store |-> cs, sealed_path |-> sealed_path, output_path |-> output_path,
                    start_offset |-> start_offset, num_bytes |-> num_bytes,
                    prover_id |-> prover_id, sector_id |-> sector_id]
        /\ engine_req' = <<get_unsealed_range_request(sealed_path, output_path, start_offset,
                                                      num_bytes, prover_id, sector_id)>>
        /\ engine_res' = result
        /\ response' = get_unsealed_range(num_bytes, result)
        /\ pc' = "returned"
        /\ response_ptr' = fresh(heap)
        /\ heap' = box_into_raw(heap, "GetUnsealedRangeResponse", response')
        /\ comm_rs' = <<>>
        /\ reads' = {}
        /\ UNCHANGED <<overflow_checks, threads, disk>>

GetUnsealed ==
    \E cs \in ConfiguredStores, sealed_path \in SealedAccesses,
       output_path \in OutputAccesses, prover_id \in ProverIds, sector_id \in SectorIds :
        LET sector_bytes == max_unsealed_bytes_per_sector(cs) IN
        \E result \in {Ok(n) : n \in SectorCounts(sector_bytes)}
                         \cup {Err(e) : e \in EngineErrors} :
            /\ CallerIdle
            /\ op' = "get_unsealed"
            /\ args' = [store |-> cs, sealed_path |-> sealed_path,
                        output_path |-> output_path,
                        prover_id |-> prover_id, sector_id |-> sector_id]
            /\ engine_req' = <<get_unsealed_request(sealed_path, output_path, prover_id,
                                                    sector_id, sector_bytes)>>
            /\ engine_res' = result
            /\ response' = get_unsealed(sector_bytes, result)
            /\ pc' = "returned"
            /\ response_ptr' = fresh(heap)
            /\ heap' = box_into_raw(heap, "GetUnsealedResponse", response')
            /\ comm_rs' = <<>>
            /\ reads' = {}
            /\ UNCHANGED <<overflow_checks, threads, disk>>

\* some block read by generate_post ends past the caller's buffer
OutOfBounds(len) == \E r \in generate_post_reads(len) : r[2] > len

GeneratePost ==
    \E cs \in {"ProofTest"}, len \in PostLens, seed \in ChallengeSeeds :
      \E mem \in Buffers(len) :
        /\ CallerIdle
        /\ op' = "generate_post"
        /\ args' = [store |-> cs, flattened_comm_rs |-> mem,
                    flattened_comm_rs_len |-> len, challenge_seed |-> seed]
        /\ engine_req' = <<>>
        /\ engine_res' = NoOutcome
        /\ reads' = generate_post_reads(len)
        /\ UNCHANGED <<overflow_checks, threads, disk>>
        /\ \/ \* every read finds bytes (those past the buffer are arbitrary)
              \E junk \in (IF OutOfBounds(len) THEN JunkBytes ELSE {0}) :
                LET parsed == parse_comm_rs(mem, len, junk) IN
                /\ comm_rs' = parsed
                /\ IF overflow_checks /\ Len(parsed) < 1
                   THEN \* comm_rs.len() - 1: "attempt to subtract with overflow"
                        /\ pc' = "panicked"
                        /\ response' = NoResponse
                        /\ response_ptr' = 0
                        /\ heap' = heap
                   ELSE /\ pc' = "returned"
                        /\ response' = generate_post(fault_idxs_of(Len(parsed)))
                        /\ response_ptr' = fresh(heap)
                        /\ heap' = box_into_raw(heap, "GeneratePoSTResponse", response')
           \/ \* a read past the buffer hits unmapped memory
              /\ OutOfBounds(len)
              /\ comm_rs' = <<>>
              /\ pc' = "crashed"
              /\ response' = NoResponse
              /\ response_ptr' = 0
              /\ heap' = heap

VerifyPost ==
    \E cs \in TestedStores :
        /\ \/ \* a proof made up by the caller
              \E proof \in PostProofs :
                /\ CallerIdle
                /\ args' = [store |-> cs, proof |-> proof, generated_from |-> -1]
                /\ response' = verify_post(proof)
           \/ \* the proof of the generate_post Response the caller holds
              /\ op = "generate_post"
              /\ pc = "returned"
              /\ \E r \in held(heap) : r.addr = response_ptr
              /\ args' = [store |-> cs, proof |-> response.proof,
                          generated_from |-> args.flattened_comm_rs_len]
              /\ response' = verify_post(response.proof)
        /\ op' = "verify_post"
        /\ pc' = "returned"
        /\ response_ptr' = fresh(heap)
        /\ heap' = box_into_raw(heap, "VerifyPoSTResponse", response')
        /\ engine_req' = <<>>
        /\ engine_res' = NoOutcome
        /\ comm_rs' = <<>>
        /\ reads' = {}
        /\ UNCHANGED <<overflow_checks, threads, disk>>

\* the caller releases a Response it holds with the release operation of
\* its type
DestroyResponse ==
    \E r \in held(heap) :
        /\ pc = "returned"
        /\ op' = destroy_of(r.kind)
        /\ args' = [ptr |-> r.addr]
        /\ heap' = destroy_response(heap, r.addr)
        /\ pc' = "returned"
        /\ response' = NoResponse
        /\ response_ptr' = 0
        /\ engine_req' = <<>>
        /\ engine_res' = NoOutcome
        /\ comm_rs' = <<>>
        /\ reads' = {}
        /\ UNCHANGED <<overflow_checks, threads, disk>>

Next ==
    \/ Seal
    \/ VerifySeal
    \/ GetUnsealedRange
    \/ GetUnsealed
    \/ GeneratePost
    \/ VerifyPost
    \/ DestroyResponse

Spec == Init /\ [][Next]_vars

----------------------------------------------------------------------------
(* Sector store collaborator: preprocessing of unsealed bytes             *)
(* (sector_base).  Staged data is kept as field elements: every 254 bits  *)
(* of data are followed by 2 zero bits.                                    *)

\* bit j (from 0) of a byte sequence, least significant bit first; 0 past the end
bit_at(bytes, j) ==
    IF j \div 8 < Len(bytes) THEN (bytes[(j \div 8) + 1] \div (2 ^ (j % 8))) % 2 ELSE 0

\* the byte made of the 8 bits f[0] .. f[7]
byte_of(f) ==
    f[0] + 2 * f[1] + 4 * f[2] + 8 * f[3] + 16 * f[4] + 32 * f[5] + 64 * f[6] + 128 * f[7]

\* number of padded bytes holding n bytes of data
padded_len(n) == ((8 * n + 2 * ((8 * n) \div 254)) + 7) \div 8

\* number of whole data bytes held in b padded bytes
unpadded_len(b) == ((8 * b) - 2 * ((8 * b) \div 256)) \div 8

\* bit q (from 0) of the padded form of data
padded_bit(data, q) ==
    IF q % 256 >= 254 THEN 0 ELSE bit_at(data, 254 * (q \div 256) + (q % 256))

\* the padded form of data
preprocess(data) ==
    [k \in 1..padded_len(Len(data)) |->
        byte_of([i \in 0..7 |-> padded_bit(data, 8 * (k - 1) + i)])]

\* the data held in padded bytes: the inverse of preprocess
unpreprocess(padded) ==
    [k \in 1..unpadded_len(Len(padded)) |->
        byte_of([i \in 0..7 |->
            LET p == 8 * (k - 1) + i IN bit_at(padded, p + 2 * (p \div 254))])]

\* write_and_preprocess: the staged file after data is appended to it
write_and_preprocess(staged, data) == preprocess(unpreprocess(staged) \o data)

----------------------------------------------------------------------------
(* Proving engine collaborator (api::internal)                             *)

\* size in bytes of the padded sector of a configuration
sector_padded_bytes(cs) == padded_len(max_unsealed_bytes_per_sector(cs))

\* bytes extended with zeros to n bytes
zero_extend(bytes, n) == [i \in 1..n |-> IF i <= Len(bytes) THEN bytes[i] ELSE 0]

\* the encoding key of a sector at byte i
sector_key(prover_id, sector_id, i) ==
    (7 * prover_id[(i % ID_BYTES) + 1] + sector_id[(i % ID_BYTES) + 1] + i) % 256

\* the replica of padded sector data
encode(padded, prover_id, sector_id) ==
    [i \in 1..Len(padded) |-> (padded[i] + sector_key(prover_id, sector_id, i)) % 256]

\* the padded sector data of a replica
decode(replica, prover_id, sector_id) ==
    [i \in 1..Len(replica) |->
        (replica[i] + 256 - sector_key(prover_id, sector_id, i)) % 256]

RECURSIVE sum_stride(_, _, _)
\* bytes[j] + bytes[j + stride] + ... (mod 256)
sum_stride(bytes, j, stride) ==
    IF j > Len(bytes) THEN 0 ELSE (bytes[j] + sum_stride(bytes, j + stride, stride)) % 256

\* the 32-byte commitment to a byte sequence
commitment(bytes) == [j \in 1..COMM_BYTES |-> (sum_stride(bytes, j, COMM_BYTES) + j) % 256]

\* the proof of a sealing with the given public inputs
snark_proof(comm_r, comm_d, prover_id, sector_id) ==
    [i \in 1..SNARK_BYTES |->
        (comm_r[(i % COMM_BYTES) + 1] + 3 * comm_d[(i % COMM_BYTES) + 1]
            + prover_id[(i % ID_BYTES) + 1] + 5 * sector_id[(i % ID_BYTES) + 1] + i) % 256]

NotFound == [variant |-> "Io", detail |-> "sector access not found"]

\* internal::seal: the replica written to the sealed access and the result
engine_seal(cs, files, req) ==
    IF req.unsealed \notin DOMAIN files
    THEN [result |-> Err(NotFound), files |-> files]
    ELSE LET padded == zero_extend(files[req.unsealed], sector_padded_bytes(cs))
             replica == encode(padded, req.prover_id, req.sector_id)
             comm_r == commitment(replica)
             comm_d == commitment(padded)
         IN [result |-> Ok(<<comm_r, comm_d,
                             snark_proof(comm_r, comm_d, req.prover_id, req.sector_id)>>),
             files |-> [k \in DOMAIN files \cup {req.sealed} |->
                           IF k = req.sealed THEN replica ELSE files[k]]]

\* internal::verify_seal
engine_verify_seal(req) ==
    Ok(req.proof = snark_proof(req.comm_r, req.comm_d, req.prover_id, req.sector_id))

\* internal::get_unsealed_range: the bytes written to the output access and
\* their number
engine_get_unsealed_range(cs, files, req) ==
    IF req.sealed \notin DOMAIN files
    THEN [result |-> Err(NotFound), files |-> files]
    ELSE LET unsealed == unpreprocess(decode(files[req.sealed], req.prover_id, req.sector_id))
             avail == IF req.start_offset >= Len(unsealed) THEN 0
                      ELSE Len(unsealed) - req.start_offset
             n == Min(req.num_bytes, avail)
             written == SubSeq(unsealed, req.start_offset + 1, req.start_offset + n)
         IN [result |-> Ok(n),
             files |-> [k \in DOMAIN files \cup {req.output} |->
                           IF k = req.output THEN written ELSE files[k]]]

----------------------------------------------------------------------------
(* The round-trip tests (mod tests): callers of the dispatcher.  A thread  *)
(* runs one test; its program is the sequence of the calls the test makes, *)
(* each with the local it assigns and the local it reads or releases.  An  *)
(* assertion of the test is part of the step whose result it looks at.     *)

\* the number of threads of the concurrent test (5 in the source)
MaxThreads == 2

\* create_storage with every store over the same pair of directories
create_storage_shared(t) == "tmp"

\* create_storage: a store over temporary directories of its own
create_storage(t) == "tmp" \o ToString(t)

\* new_staging_sector_access / new_sealed_sector_access: the access made
new_sector_access(storage, dir, name) == storage \o "/" \o dir \o "/" \o name

seal_input_path(t) == new_sector_access(create_storage(t), "staging", "a")

get_unsealed_output_path(t) == new_sector_access(create_storage(t), "staging", "b")

seal_output_path(t) == new_sector_access(create_storage(t), "sealed", "a")

test_prover_id == Fill(2, ID_BYTES)

test_sector_id == Fill(0, ID_BYTES)

\* one call of a test: the function, the local bound to its result and the
\* local it is given ("" for none)
Call(fn, ret, arg) == [fn |-> fn, ret |-> ret, arg |-> arg]

seal_verify_aux ==
    << Call("new_sector_access", "", ""),
       Call("write_and_preprocess", "", ""),
       Call("seal", "seal_res", ""),
       Call("verify_seal", "verify_seal_res", "seal_res"),
       Call("destroy_seal_response", "", "seal_res"),
       Call("destroy_verify_seal_response", "", "verify_seal_res") >>

write_and_preprocess_overwrites_unaligned_last_bytes_aux ==
    << Call("new_sector_access", "", ""),
       Call("write_and_preprocess", "", ""),
       Call("write_and_preprocess", "", ""),
       Call("seal", "seal_response", ""),
       Call("get_unsealed", "get_unsealed_response", ""),
       Call("read_to_end", "", ""),
       Call("destroy_seal_response", "", "seal_response"),
       Call("destroy_get_unsealed_response", "", "get_unsealed_response") >>

seal_unsealed_roundtrip_aux ==
    << Call("new_sector_access", "", ""),
       Call("write_and_preprocess", "", ""),
       Call("seal", "seal_response", ""),
       Call("get_unsealed", "get_unsealed_response", ""),
       Call("read_to_end", "", ""),
       Call("destroy_seal_response", "", "seal_response"),
       Call("destroy_get_unsealed_response", "", "get_unsealed_response") >>

seal_unsealed_range_roundtrip_aux ==
    << Call("new_sector_access", "", ""),
       Call("write_and_preprocess", "", ""),
       Call("seal", "seal_response", ""),
       Call("get_unsealed_range", "get_unsealed_range_response", ""),
       Call("read_to_end", "", ""),
       Call("destroy_seal_response", "", "seal_response"),
       Call("destroy_get_unsealed_range_response", "", "get_unsealed_range_response") >>

\* the PoSt round trip releasing the generate_post Response before
\* verify_post reads its proof
generate_verify_post_roundtrip_aux_released_early ==
    << Call("generate_post", "generate_post_res", ""),
       Call("destroy_generate_post_response", "", "generate_post_res"),
       Call("verify_post", "verify_post_res", "generate_post_res"),
       Call("destroy_verify_post_response", "", "verify_post_res") >>

generate_verify_post_roundtrip_aux ==
    << Call("generate_post", "generate_post_res", ""),
       Call("verify_post", "verify_post_res", "generate_post_res"),
       Call("destroy_generate_post_response", "", "generate_post_res"),
       Call("destroy_verify_post_response", "", "verify_post_res") >>

\* the calls of a test, in order
program(test) ==
    CASE test = "seal_verify_aux" -> seal_verify_aux
      [] test = "write_and_preprocess_overwrites_unaligned_last_bytes_aux" ->
            write_and_preprocess_overwrites_unaligned_last_bytes_aux
      [] test = "seal_unsealed_roundtrip_aux" -> seal_unsealed_roundtrip_aux
      [] test = "seal_unsealed_range_roundtrip_aux" -> seal_unsealed_range_roundtrip_aux
      [] test = "generate_verify_post_roundtrip_aux" -> generate_verify_post_roundtrip_aux

\* the locals of the tests that hold a Response
Locals ==
    {"seal_res", "verify_seal_res", "seal_response", "get_unsealed_response",
     "get_unsealed_range_response", "generate_post_res", "verify_post_res"}

\* a local before its call: the kind of Response it points to and the
\* release operations called on it are recorded with the pointer
Unset == [ptr |-> 0, kind |-> "none", releases |-> <<>>]

\* a thread at the start of a test.  alone is the reference run of the same
\* test on a disk no other thread writes to: every store or engine call of
\* the thread is applied to it as well
NewThread(test, cs, byte_padding_amount, chunks, offset, range_length, comm, seed) ==
    [test |-> test, cs |-> cs, byte_padding_amount |-> byte_padding_amount,
     contents |-> chunks, offset |-> offset, range_length |-> range_length,
     flattened_comm_rs |-> comm, challenge_seed |-> seed,
     at |-> 1, state |-> "running", written |-> 0,
     locals |-> [n \in Locals |-> Unset], buf |-> <<>>,
     alone |-> [files |-> NoFiles, responses |-> [n \in Locals |-> NoResponse]]]

\* the byte paddings the tests are run with
Paddings == {0, 5}

\* make_random_bytes(n): the contents drawn
make_random_bytes(n) == {Fill(255, n), Ramp(7, 3, n)}

\* the ranges asked of get_unsealed_range after L bytes were written: the
\* test's (offset 5 to the end of the contents), and others within and
\* past the sector
RangeRequests(L, sector_bytes) ==
    {<<5, L - 5>>, <<0, L>>, <<0, sector_bytes>>, <<5, sector_bytes - 5>>,
     <<5, sector_bytes>>, <<sector_bytes, 1>>, <<1, 0>>}

SealVerifyRuns ==
    UNION {{NewThread("seal_verify_aux", cs, pad, <<c>>, 0, 0, <<>>, <<>>) :
                c \in make_random_bytes(max_unsealed_bytes_per_sector(cs) - pad)} :
           cs \in TestedStores, pad \in Paddings}

OverwriteRuns ==
    {NewThread("write_and_preprocess_overwrites_unaligned_last_bytes_aux", "ProofTest", 0,
               <<Fill(255, 32), Fill(255, 95)>>, 0, 0, <<>>, <<>>)}

RoundtripRuns ==
    UNION {{NewThread("seal_unsealed_roundtrip_aux", cs, pad, <<c>>, 0, 0, <<>>, <<>>) :
                c \in make_random_bytes(max_unsealed_bytes_per_sector(cs) - pad)} :
           cs \in TestedStores, pad \in Paddings}

\* seal_unsealed_range_roundtrip_aux, with the range the test asks for and
\* with the other ranges
RangeRuns ==
    UNION {LET L == max_unsealed_bytes_per_sector(cs) - pad IN
           {NewThread("seal_unsealed_range_roundtrip_aux", cs, pad, <<c>>, r[1], r[2], <<>>, <<>>) :
               c \in make_random_bytes(L),
               r \in RangeRequests(L, max_unsealed_bytes_per_sector(cs))} :
           cs \in TestedStores, pad \in Paddings}

PostRuns ==
    {NewThread("generate_verify_post_roundtrip_aux", "ProofTest", 0, <<>>, 0, 0, comm, seed) :
        comm \in Buffers(32), seed \in ChallengeSeeds}

\* the contents thread t of the concurrent test draws: no two threads draw
\* the same
thread_random_bytes(t, n) == Ramp((7 * t) % 256, 3, n)

\* concurrent_seal_unsealed_range_roundtrip_proof_test: the spawned threads,
\* each in seal_unsealed_range_roundtrip_aux(ProofTest, 0)
ConcurrentRuns ==
    LET L == max_unsealed_bytes_per_sector("ProofTest") IN
    {[t \in 1..n |->
        NewThread("seal_unsealed_range_roundtrip_aux", "ProofTest", 0,
                  <<thread_random_bytes(t, L)>>, 5, L - 5, <<>>, <<>>)] : n \in 2..MaxThreads}

\* the test runs: one test on its own, or the concurrent test
TestRuns ==
    {<<th>> : th \in SealVerifyRuns \cup OverwriteRuns \cup RoundtripRuns
                        \cup RangeRuns \cup PostRuns}
        \cup ConcurrentRuns

TestsInit ==
    /\ threads \in TestRuns
    /\ disk = NoFiles
    /\ overflow_checks \in BOOLEAN
    /\ op = "none"
    /\ pc = "idle"
    /\ args = [store |-> "ProofTest"]
    /\ engine_req = <<>>
    /\ engine_res = NoOutcome
    /\ comm_rs = <<>>
    /\ reads = {}
    /\ response = NoResponse
    /\ response_ptr = 0
    /\ heap = {}

----------------------------------------------------------------------------
(* The steps of a thread *)

\* the call a thread is at
step(th) == program(th.test)[th.at]

\* thread t is about to call fn
Running(t, fn) == threads[t].state = "running" /\ step(threads[t]).fn = fn

\* the thread after a step: a failed assertion panics the thread, the end
\* of the program ends the test
Advance(th, asserted) ==
    [th EXCEPT
        !.at = @ + 1,
        !.state = IF ~asserted THEN "failed"
                  ELSE IF th.at = Len(program(th.test)) THEN "passed" ELSE "running"]

\* the result local of the step bound to the Response allocated next on heap h
Bind(th, type, h) ==
    [th EXCEPT !.locals[step(th).ret] = [ptr |-> fresh(h), kind |-> type, releases |-> <<>>]]

\* the local n points to a Response that was returned and not released
Readable(th, n) == th.locals[n].ptr # 0 /\ th.locals[n].releases = <<>>

\* the reference run after a call that left files and returned res
Alone(th, files, res) ==
    [th EXCEPT !.alone.files = files,
               !.alone.responses = IF step(th).ret = "" THEN @
                                   ELSE [@ EXCEPT ![step(th).ret] = res]]

\* (*ptr): the Response at ptr
deref(h, ptr) == (CHOOSE b \in h : b.addr = ptr).data

\* the thread after a read or a release of memory that was released: what
\* follows is not defined
Undefined(th) == [th EXCEPT !.state = "undefined"]

RECURSIVE concat(_)
\* the chunks of a sequence, joined
concat(chunks) == IF chunks = <<>> THEN <<>> ELSE Head(chunks) \o concat(Tail(chunks))

\* the file at path, created empty if there is none
touch(files, path) ==
    [k \in DOMAIN files \cup {pbuf_from_c(path)} |->
        IF k \in DOMAIN files THEN files[k] ELSE <<>>]

\* the assertions on the bytes read back from the output access
read_asserts(th, buf) ==
    LET contents == concat(th.contents)
        L == Len(contents)
    IN CASE th.test = "seal_unsealed_roundtrip_aux" ->
              /\ Len(buf) >= th.byte_padding_amount
              /\ L = Len(buf) - th.byte_padding_amount
              /\ contents = SubSeq(buf, 1, L)
         [] th.test = "write_and_preprocess_overwrites_unaligned_last_bytes_aux" ->
              /\ L = Len(buf)
              /\ th.contents[1] = SubSeq(buf, 1, Len(th.contents[1]))
              /\ th.contents[2] = SubSeq(buf, Len(th.contents[1]) + 1, L)
         [] th.test = "seal_unsealed_range_roundtrip_aux" ->
              /\ th.offset <= L
              /\ th.range_length <= Len(buf)
              /\ SubSeq(contents, th.offset + 1, L) = SubSeq(buf, 1, th.range_length)

\* the files after the accesses of a test are made
new_accesses(test, t, files) ==
    LET staged == touch(files, seal_input_path(t))
        output == IF test = "seal_verify_aux" THEN staged
                  ELSE touch(staged, get_unsealed_output_path(t))
    IN touch(output, seal_output_path(t))

\* new_staging_sector_access (twice where the test unseals) and
\* new_sealed_sector_access
NewSectorAccess(t) ==
    /\ Running(t, "new_sector_access")
    /\ LET th == threads[t]
       IN /\ disk' = new_accesses(th.test, t, disk)
          /\ threads' = [threads EXCEPT
                            ![t] = Advance(Alone(th, new_accesses(th.test, t, th.alone.files),
                                                 NoResponse), TRUE)]
    /\ UNCHANGED <<callvars, heap>>

\* write_and_preprocess of the next chunk of the contents to the seal input
WriteAndPreprocess(t) ==
    /\ Running(t, "write_and_preprocess")
    /\ LET th == threads[t]
           path == pbuf_from_c(seal_input_path(t))
           chunk == th.contents[th.written + 1]
       IN IF path \in DOMAIN disk
          THEN /\ disk' = [disk EXCEPT ![path] = write_and_preprocess(@, chunk)]
               /\ threads' = [threads EXCEPT
                                 ![t] = Advance(Alone([th EXCEPT !.written = @ + 1],
                                                      [th.alone.files EXCEPT
                                                          ![path] = write_and_preprocess(@, chunk)],
                                                      NoResponse), TRUE)]
          ELSE /\ disk' = disk
               /\ threads' = [threads EXCEPT ![t] = Advance(th, FALSE)]
    /\ UNCHANGED <<callvars, heap>>

\* seal, and the assertion that it succeeded
CallSeal(t) ==
    /\ Running(t, "seal")
    /\ LET th == threads[t]
           req == seal_request(seal_input_path(t), seal_output_path(t),
                               test_prover_id, test_sector_id)
           out == engine_seal(th.cs, disk, req)
           res == seal(out.result)
           ref == engine_seal(th.cs, th.alone.files, req)
       IN /\ disk' = out.files
          /\ heap' = box_into_raw(heap, "SealResponse", res)
          /\ threads' = [threads EXCEPT
                            ![t] = Advance(Bind(Alone(th, ref.files, seal(ref.result)),
                                                "SealResponse", heap),
                                           res.status_code = FCPSuccess)]
    /\ UNCHANGED callvars

\* verify_seal of what seal returned, and the assertion that it succeeded
CallVerifySeal(t) ==
    /\ Running(t, "verify_seal")
    /\ LET th == threads[t] IN
       IF Readable(th, step(th).arg)
       THEN LET seal_res == deref(heap, th.locals[step(th).arg].ptr)
                req == verify_seal_request(seal_res.comm_r, seal_res.comm_d,
                                           test_prover_id, test_sector_id, seal_res.proof)
                res == verify_seal(engine_verify_seal(req))
            IN /\ heap' = box_into_raw(heap, "VerifySealResponse", res)
               /\ threads' = [threads EXCEPT
                                 ![t] = Advance(Bind(th, "VerifySealResponse", heap),
                                                res.status_code = FCPSuccess)]
       ELSE /\ heap' = heap
            /\ threads' = [threads EXCEPT ![t] = Undefined(th)]
    /\ UNCHANGED <<callvars, disk>>

\* get_unsealed, and the assertion that it succeeded
CallGetUnsealed(t) ==
    /\ Running(t, "get_unsealed")
    /\ LET th == threads[t]
           sector_bytes == max_unsealed_bytes_per_sector(th.cs)
           req == get_unsealed_request(seal_output_path(t), get_unsealed_output_path(t),
                                       test_prover_id, test_sector_id, sector_bytes)
           out == engine_get_unsealed_range(th.cs, disk, req)
           res == get_unsealed(sector_bytes, out.result)
           ref == engine_get_unsealed_range(th.cs, th.alone.files, req)
       IN /\ disk' = out.files
          /\ heap' = box_into_raw(heap, "GetUnsealedResponse", res)
          /\ threads' = [threads EXCEPT
                            ![t] = Advance(Bind(Alone(th, ref.files,
                                                      get_unsealed(sector_bytes, ref.result)),
                                                "GetUnsealedResponse", heap),
                                           res.status_code = FCPSuccess)]
    /\ UNCHANGED callvars

\* get_unsealed_range, and the assertions on its status and its count
CallGetUnsealedRange(t) ==
    /\ Running(t, "get_unsealed_range")
    /\ LET th == threads[t]
           req == get_unsealed_range_request(seal_output_path(t), get_unsealed_output_path(t),
                                             th.offset, th.range_length,
                                             test_prover_id, test_sector_id)
           out == engine_get_unsealed_range(th.cs, disk, req)
           res == get_unsealed_range(th.range_length, out.result)
           ref == engine_get_unsealed_range(th.cs, th.alone.files, req)
       IN /\ disk' = out.files
          /\ heap' = box_into_raw(heap, "GetUnsealedRangeResponse", res)
          /\ threads' = [threads EXCEPT
                            ![t] = Advance(Bind(Alone(th, ref.files,
                                                      get_unsealed_range(th.range_length,
                                                                         ref.result)),
                                                "GetUnsealedRangeResponse", heap),
                                           /\ res.status_code = FCPSuccess
                                           /\ res.num_bytes_written = th.range_length)]
    /\ UNCHANGED callvars

\* File::open(output path), read_to_end(&mut buf), and the assertions on buf
ReadToEnd(t) ==
    /\ Running(t, "read_to_end")
    /\ LET th == threads[t]
           path == pbuf_from_c(get_unsealed_output_path(t))
       IN IF path \in DOMAIN disk
          THEN threads' = [threads EXCEPT
                              ![t] = Advance([th EXCEPT !.buf = disk[path]],
                                             read_asserts(th, disk[path]))]
          ELSE threads' = [threads EXCEPT ![t] = Advance(th, FALSE)]
    /\ UNCHANGED <<callvars, heap, disk>>

\* generate_post(storage, &comm_rs[0], 32, &challenge_seed), and the
\* assertion that it succeeded
CallGeneratePost(t) ==
    /\ Running(t, "generate_post")
    /\ LET th == threads[t]
           len == Len(th.flattened_comm_rs)
           parsed == parse_comm_rs(th.flattened_comm_rs, len, 0)
           res == generate_post(fault_idxs_of(Len(parsed)))
       IN IF overflow_checks /\ Len(parsed) < 1
          THEN /\ heap' = heap
               /\ threads' = [threads EXCEPT ![t] = Advance(th, FALSE)]
          ELSE /\ heap' = box_into_raw(heap, "GeneratePoSTResponse", res)
               /\ threads' = [threads EXCEPT
                                 ![t] = Advance(Bind(th, "GeneratePoSTResponse", heap),
                                                res.status_code = FCPSuccess)]
    /\ UNCHANGED <<callvars, disk>>

\* verify_post(storage, &(*generate_post_res).proof), and the assertions
\* that it succeeded and found the proof valid
CallVerifyPost(t) ==
    /\ Running(t, "verify_post")
    /\ LET th == threads[t] IN
       IF Readable(th, step(th).arg)
       THEN LET res == verify_post(deref(heap, th.locals[step(th).arg].ptr).proof)
            IN /\ heap' = box_into_raw(heap, "VerifyPoSTResponse", res)
               /\ threads' = [threads EXCEPT
                                 ![t] = Advance(Bind(th, "VerifyPoSTResponse", heap),
                                                /\ res.status_code = FCPSuccess
                                                /\ res.is_valid = TRUE)]
       ELSE /\ heap' = heap
            /\ threads' = [threads EXCEPT ![t] = Undefined(th)]
    /\ UNCHANGED <<callvars, disk>>

\* responses::destroy_*_response(local): the release of the Response a
\* local points to
CallDestroy(t) ==
    /\ \E type \in ResponseTypes : Running(t, destroy_of(type))
    /\ LET th == threads[t]
           n == step(th).arg
           released == [th EXCEPT !.locals[n].releases = Append(@, step(th).fn)]
       IN IF Readable(th, n) /\ destroy_of(th.locals[n].kind) = step(th).fn
          THEN /\ heap' = destroy_response(heap, th.locals[n].ptr)
               /\ threads' = [threads EXCEPT ![t] = Advance(released, TRUE)]
          ELSE /\ heap' = heap
               /\ threads' = [threads EXCEPT ![t] = Undefined(released)]
    /\ UNCHANGED <<callvars, disk>>

TestsNext ==
    \/ \E t \in DOMAIN threads : NewSectorAccess(t)
    \/ \E t \in DOMAIN threads : WriteAndPreprocess(t)
    \/ \E t \in DOMAIN threads : CallSeal(t)
    \/ \E t \in DOMAIN threads : CallVerifySeal(t)
    \/ \E t \in DOMAIN threads : CallGetUnsealed(t)
    \/ \E t \in DOMAIN threads : CallGetUnsealedRange(t)
    \/ \E t \in DOMAIN threads : ReadToEnd(t)
    \/ \E t \in DOMAIN threads : CallGeneratePost(t)
    \/ \E t \in DOMAIN threads : CallVerifyPost(t)
    \/ \E t \in DOMAIN threads : CallDestroy(t)

SpecTests == TestsInit /\ [][TestsNext]_vars

----------------------------------------------------------------------------
(* Properties of the dispatcher operations *)

Returned(o) == op = o /\ pc = "returned"

\* the flattened_comm_rs_len of the generate_post call in args
PostLen == args.flattened_comm_rs_len

\* C1: get_unsealed_range with engine result Ok(n): the status is Success
\* iff n = num_bytes, otherwise ReceiverError with an error message; in both
\* cases num_bytes_written = n.
C1_RangeClassification ==
    (Returned("get_unsealed_range") /\ engine_res.ok) =>
        /\ (response.status_code = FCPSuccess) <=> (engine_res.value = args.num_bytes)
        /\ (engine_res.value # args.num_bytes) =>
              (response.status_code = FCPReceiverError /\ ~response.error_msg.null)
        /\ response.num_bytes_written = engine_res.value

C1_Witness ==
    /\ Returned("get_unsealed_range")
    /\ engine_res.ok
    /\ engine_res.value > args.num_bytes
    /\ response.status_code = FCPReceiverError
    /\ response.num_bytes_written = engine_res.value

\* C2: verify_seal keeps the three engine outcomes apart: Ok(true) gives
\* Success with is_valid, Ok(false) gives Success without is_valid, a
\* failure gives UnclassifiedError with a message; the Response determines
\* the outcome.
C2_VerifySealDistinct ==
    Returned("verify_seal") =>
        /\ (engine_res.ok /\ engine_res.value) <=>
              (response.status_code = FCPSuccess /\ response.is_valid)
        /\ (engine_res.ok /\ ~engine_res.value) <=>
              (response.status_code = FCPSuccess /\ ~response.is_valid)
        /\ (~engine_res.ok) <=>
              (response.status_code = FCPUnclassifiedError /\ ~response.error_msg.null)

C2_Witness ==
    /\ Returned("verify_seal")
    /\ engine_res.ok
    /\ ~engine_res.value
    /\ response.status_code = FCPSuccess
    /\ ~response.is_valid

\* C3: seal returns Success with the engine's comm_r, comm_d and proof
\* (32, 32 and 192 bytes), and on an engine failure UnclassifiedError with
\* the rendering of the failure as its message.
C3_SealClassification ==
    Returned("seal") =>
        IF engine_res.ok
        THEN /\ response.status_code = FCPSuccess
             /\ response.comm_r = engine_res.value[1] /\ Len(response.comm_r) = 32
             /\ response.comm_d = engine_res.value[2] /\ Len(response.comm_d) = 32
             /\ response.proof = engine_res.value[3] /\ Len(response.proof) = 192
        ELSE /\ response.status_code = FCPUnclassifiedError
             /\ ~response.error_msg.null
             /\ response.error_msg.text
                    = engine_res.err.variant \o "(\"" \o engine_res.err.detail \o "\")"

C3_Witness ==
    /\ Returned("seal")
    /\ engine_res.ok
    /\ engine_res.value[1] # engine_res.value[2]
    /\ response.comm_r = engine_res.value[1]
    /\ response.status_code = FCPSuccess

\* C4: get_unsealed hands the engine exactly one ranged-unseal request, with
\* start offset 0 and length max_unsealed_bytes_per_sector of the store, and
\* classifies like get_unsealed_range: Success iff the engine wrote that
\* many bytes, ReceiverError for another count, UnclassifiedError on failure.
C4_GetUnsealedWholeSector ==
    Returned("get_unsealed") =>
        LET sector_bytes == max_unsealed_bytes_per_sector(args.store) IN
        /\ Len(engine_req) = 1
        /\ engine_req[1].fn = "get_unsealed_range"
        /\ engine_req[1].start_offset = 0
        /\ engine_req[1].num_bytes = sector_bytes
        /\ response.status_code =
              IF ~engine_res.ok THEN FCPUnclassifiedError
              ELSE IF engine_res.value = sector_bytes THEN FCPSuccess
              ELSE FCPReceiverError

C4_Witness ==
    /\ Returned("get_unsealed")
    /\ args.store = "ProofTest"
    /\ engine_req[1].num_bytes = 127
    /\ engine_res.ok
    /\ engine_res.value = 127
    /\ response.status_code = FCPSuccess

C6_FaultAttribution ==
    (op = "generate_post" /\ PostLen % 32 = 0 /\ PostLen >= 32) =>
        /\ pc = "returned"
        /\ (PostLen = 32) =>
              (response.faults_len = 0 /\ response.faults_ptr = <<>>)
        /\ (PostLen >= 64) =>
              (response.faults_len = 1 /\ response.faults_ptr = <<0>>)

C6_Witness ==
    /\ Returned("generate_post")
    /\ PostLen = 64
    /\ Len(comm_rs) = 2
    /\ response.faults_ptr = <<0>>

\* C7: generate_post on one or more 32-byte commitments returns Success,
\* and verify_post on the proof of that Response returns Success with
\* is_valid.
C7_PostRoundTrip ==
    /\ (op = "generate_post" /\ PostLen % 32 = 0 /\ PostLen >= 32) =>
          (pc = "returned" /\ response.status_code = FCPSuccess)
    /\ (op = "verify_post" /\ args.generated_from % 32 = 0 /\ args.generated_from >= 32) =>
          (pc = "returned" /\ response.status_code = FCPSuccess /\ response.is_valid)

C7_Witness ==
    /\ Returned("verify_post")
    /\ args.generated_from = 32
    /\ response.is_valid

\* C8: verify_post reports is_valid iff the first byte of the proof is the
\* sentinel 42 that generate_post writes; nothing else of the proof and
\* nothing of the store matters.
C8_VerifyPostFirstByte ==
    Returned("verify_post") =>
        /\ response.is_valid <=> (args.proof[1] = 42)
        /\ generate_post(<<>>).proof[1] = 42

C8_Witness ==
    /\ Returned("verify_post")
    /\ args.proof[1] = 42
    /\ args.proof[2] # 42
    /\ args.proof[192] # 42
    /\ response.is_valid

\* C9: every index of the fault list generate_post returns is smaller than
\* the number of commitments parsed from the buffer, the empty buffer
\* included.
C9_FaultIndicesValid ==
    Returned("generate_post") =>
        \A i \in 1..response.faults_len : response.faults_ptr[i] < Len(comm_rs)

\* C10: for a length that is a multiple of 32, generate_post parses len/32
\* commitments, commitment i being bytes [32i, 32i+32); for any other
\* length it reads no 32-byte block that ends past flattened_comm_rs_len.
C10_LengthValidated ==
    (op = "generate_post") =>
        /\ (PostLen % 32 = 0 /\ pc = "returned") =>
              /\ Len(comm_rs) = PostLen \div 32
              /\ \A i \in 1..Len(comm_rs) :
                    comm_rs[i] = SubSeq(args.flattened_comm_rs, 32 * (i - 1) + 1, 32 * i)
        /\ (PostLen % 32 # 0) => \A r \in reads : r[2] <= PostLen

\* the six operations of the dispatcher
DispatcherOps ==
    {"seal", "verify_seal", "get_unsealed_range", "get_unsealed",
     "generate_post", "verify_post"}

\* C11: every call of one of the six operations returns exactly one
\* non-null Response whose status is Success, ReceiverError or
\* UnclassifiedError, with an error message iff the status is not Success.
C11_OneResponsePerCall ==
    (op \in DispatcherOps) =>
        /\ pc = "returned"
        /\ response_ptr # 0
        /\ Cardinality({r \in held(heap) : r.addr = response_ptr /\ r.data = response}) = 1
        /\ response.status_code \in {FCPSuccess, FCPReceiverError, FCPUnclassifiedError}
        /\ (~response.error_msg.null) <=> (response.status_code # FCPSuccess)

\* C17: the number of faults is min(1, count - 1) on the unsigned machine
\* word; for count = 0 the subtraction wraps to the largest word, so without
\* overflow checks the call returns the fault list [0] for no commitment.
C17_FaultCountUnderflow ==
    /\ Returned("generate_post") =>
          response.faults_len =
              Min(1, IF Len(comm_rs) = 0 THEN WORD_MAX ELSE Len(comm_rs) - 1)
    /\ (op = "generate_post" /\ PostLen = 0 /\ ~overflow_checks) =>
          /\ pc = "returned"
          /\ Len(comm_rs) = 0
          /\ response.faults_len = 1
          /\ response.faults_ptr = <<0>>

C17_Witness ==
    /\ Returned("generate_post")
    /\ ~overflow_checks
    /\ PostLen = 0
    /\ comm_rs = <<>>
    /\ response.faults_ptr = <<0>>

\* C18: the error message or fault list a Response points to is allocated
\* when the call returns and for as long as the caller holds the Response;
\* it is freed only together with the Response, by its release.
C18_AttachedDataOutlivesCall ==
    /\ \A r \in held(heap) :
          /\ (~r.data.error_msg.null) =>
                \E b \in heap :
                    b.kind = "CString" /\ b.owner = r.addr /\ b.data = r.data.error_msg.text
          /\ (r.kind = "GeneratePoSTResponse" /\ r.data.faults_len > 0) =>
                \E b \in heap :
                    b.kind = "Vec" /\ b.owner = r.addr /\ b.data = r.data.faults_ptr
    /\ \A b \in heap \ held(heap) : \E r \in held(heap) : r.addr = b.owner
    /\ (pc = "returned" /\ op \in DispatcherOps) =>
          \E r \in held(heap) : r.addr = response_ptr /\ r.data = response

C18_Witness ==
    /\ Returned("verify_post")
    /\ \E r \in held(heap), b \in heap :
          /\ r.kind = "GeneratePoSTResponse"
          /\ r.addr # response_ptr
          /\ b.kind = "Vec"
          /\ b.owner = r.addr
          /\ b.data = <<0>>

----------------------------------------------------------------------------
(* Properties of the round-trip tests *)

\* the locals, per thread, that hold a Response not yet released
Handles == {x \in (DOMAIN threads) \X Locals : Readable(threads[x[1]], x[2])}

\* the pointer a thread's local holds
PtrOf(x) == threads[x[1]].locals[x[2]].ptr

\* C12: a Response is returned by one dispatcher call and from then on held
\* by the caller alone: no two calls hand out the same live Response, a
\* Response stays allocated until its holder releases it, nothing reads or
\* releases a Response that was released, and a test that runs to its end
\* has released each Response it received exactly once, with the release
\* operation of its type.
C12_ResponseLifecycle ==
    /\ \A t \in DOMAIN threads :
          /\ threads[t].state # "undefined"
          /\ \A n \in Locals :
                LET h == threads[t].locals[n] IN
                /\ Len(h.releases) <= 1
                /\ Readable(threads[t], n) =>
                      \E b \in held(heap) : b.addr = h.ptr /\ b.kind = h.kind
                /\ (threads[t].state = "passed" /\ h.ptr # 0) =>
                      h.releases = <<destroy_of(h.kind)>>
    /\ \A x \in Handles, y \in Handles : x # y => PtrOf(x) # PtrOf(y)
    /\ Cardinality(held(heap)) = Cardinality(Handles)

\* the PoSt round trip ran to its end: two Responses received, both released
C12_Witness ==
    \E t \in DOMAIN threads :
        /\ threads[t].test = "generate_verify_post_roundtrip_aux"
        /\ threads[t].state = "passed"
        /\ threads[t].locals["generate_post_res"].releases = <<"destroy_generate_post_response">>
        /\ threads[t].locals["verify_post_res"].releases = <<"destroy_verify_post_response">>
        /\ heap = {}

\* the sector files of the store of thread t
FilesOf(t, files) ==
    LET mine == {pbuf_from_c(seal_input_path(t)), pbuf_from_c(get_unsealed_output_path(t)),
                 pbuf_from_c(seal_output_path(t))}
    IN [k \in mine \cap DOMAIN files |-> files[k]]

\* the Responses a thread holds, with the data attached to them
ResponsesOf(th, h) ==
    {b \in h : \E n \in Locals :
        Readable(th, n) /\ (b.addr = th.locals[n].ptr \/ b.owner = th.locals[n].ptr)}

\* every thread of the concurrent test finds in its files and in the
\* Responses it holds what its reference run, with no other thread, left
\* there, and in the end reads back its own contents
SerialResults ==
    Len(threads) >= 2 =>
        \A t \in DOMAIN threads :
            LET th == threads[t] IN
            /\ th.state \in {"running", "passed"}
            /\ FilesOf(t, disk) = th.alone.files
            /\ \A n \in Locals :
                  Readable(th, n) => deref(heap, th.locals[n].ptr) = th.alone.responses[n]
            /\ th.at > 5 =>
                  th.buf = SubSeq(concat(th.contents), th.offset + 1,
                                  th.offset + th.range_length)

\* a step leaves alone the files and the Responses of every thread that
\* did not take it
OthersUntouched ==
    \A t \in DOMAIN threads :
        threads'[t] = threads[t] =>
            /\ FilesOf(t, disk') = FilesOf(t, disk)
            /\ ResponsesOf(threads'[t], heap') = ResponsesOf(threads[t], heap)

\* C13: seal -> get_unsealed_range round trips running concurrently on
\* sector accesses of their own each yield the results they yield when run
\* alone, and no call changes the Response or the sector data of another
\* round trip.
C13_ConcurrentIndependence == [](SerialResults) /\ [][OthersUntouched]_vars

\* two threads with different contents have both sealed, unsealed and read
\* back, and both still hold their Responses
C13_Witness ==
    /\ Len(threads) >= 2
    /\ threads[1].contents # threads[2].contents
    /\ \A t \in {1, 2} :
          /\ threads[t].at > 5
          /\ Readable(threads[t], "seal_response")
          /\ Readable(threads[t], "get_unsealed_range_response")
          /\ threads[t].buf = SubSeq(threads[t].contents[1], 6, Len(threads[t].contents[1]))

C15_UnsealRoundTrip ==
    \A t \in DOMAIN threads :
        LET th == threads[t] IN
        (/\ th.test \in {"seal_unsealed_roundtrip_aux",
                         "write_and_preprocess_overwrites_unaligned_last_bytes_aux"}
         /\ Readable(th, "get_unsealed_response")) =>
            LET out == disk[pbuf_from_c(get_unsealed_output_path(t))]
                contents == concat(th.contents)
            IN /\ deref(heap, th.locals["get_unsealed_response"].ptr).status_code = FCPSuccess
               /\ Len(out) >= Len(contents)
               /\ SubSeq(out, 1, Len(contents)) = contents

\* the 32 + 95 bytes have been written, sealed, unsealed and read back
C15_Witness ==
    \E t \in DOMAIN threads :
        /\ threads[t].test = "write_and_preprocess_overwrites_unaligned_last_bytes_aux"
        /\ threads[t].written = 2
        /\ Readable(threads[t], "get_unsealed_response")
        /\ Len(threads[t].buf) = 127

\* C16: after contents are sealed, get_unsealed_range(o, l) with o + l
\* within the unsealed length of the sector returns Success with
\* num_bytes_written = l and writes exactly l bytes, byte i of them being
\* byte o + i of the contents; with o + l past that length it returns
\* ReceiverError with the shorter count of the bytes there were.
C16_RangedUnseal ==
    \A t \in DOMAIN threads :
        LET th == threads[t] IN
        (/\ th.test = "seal_unsealed_range_roundtrip_aux"
         /\ Readable(th, "get_unsealed_range_response")) =>
            LET res == deref(heap, th.locals["get_unsealed_range_response"].ptr)
                out == disk[pbuf_from_c(get_unsealed_output_path(t))]
                contents == concat(th.contents)
                available == max_unsealed_bytes_per_sector(th.cs)
            IN IF th.offset + th.range_length <= available
               THEN /\ res.status_code = FCPSuccess
                    /\ res.num_bytes_written = th.range_length
                    /\ Len(out) = th.range_length
                    /\ \A i \in 1..th.range_length :
                          th.offset + i <= Len(contents) => out[i] = contents[th.offset + i]
               ELSE /\ res.status_code = FCPReceiverError
                    /\ res.num_bytes_written < th.range_length
                    /\ res.num_bytes_written = Len(out)
                    /\ res.num_bytes_written =
                          (IF th.offset <= available THEN available - th.offset ELSE 0)

\* a range from offset 5 to the end of contents 5 bytes short of the sector
\* has been unsealed
C16_Witness ==
    \E t \in DOMAIN threads :
        /\ threads[t].test = "seal_unsealed_range_roundtrip_aux"
        /\ threads[t].byte_padding_amount = 5
        /\ threads[t].offset = 5
        /\ threads[t].range_length = Len(threads[t].contents[1]) - 5
        /\ Readable(threads[t], "get_unsealed_range_response")
        /\ threads[t].state = "running"
        /\ threads[t].at > 5

====
